---- MODULE Spec2Model ----
(***************************************************************************)
(* Model of genencoder: CircuitGenEncoder (the circuit <-> string codec)   *)
(* and CircuitGenerator (random constant depth circuits).                  *)
(*                                                                         *)
(* Numbers are fixed point: one unit of the model is 1e-5, so 1.0 is       *)
(* 100000 and the four printed decimals of a coefficient are a rounding    *)
(* to multiples of 10.  Python's float % with a positive modulus returns a *)
(* value with the sign of the modulus, as TLA+'s % does.                   *)
(***************************************************************************)
EXTENDS Integers, Sequences, FiniteSets, TLC

VARIABLES symbols, codecs, circuit, last,
          gen, moment, qubits, current_moment, past_moment, ngates, acted, gpc

cvars == <<symbols, codecs, circuit, last>>
gvars == <<gen, moment, qubits, current_moment, past_moment, ngates, acted, gpc>>
vars == <<symbols, codecs, circuit, last,
          gen, moment, qubits, current_moment, past_moment, ngates, acted, gpc>>

-----------------------------------------------------------------------------
(* Bounds of the model *)

\* longest circuit built with circuit += gate
MaxGates == 2
\* number of CircuitGenEncoder objects constructed
MaxCodecs == 2
\* CircuitGenerator: largest n_qubits and depth explored
MaxQubits == 3
MaxDepth == 2

-----------------------------------------------------------------------------
(* Numbers *)

\* 1.0
One == 100000
\* numpy.pi, 4.0 * numpy.pi and numpy.pi / 4 in units of 1e-5
Pi == 314159
FourPi == 1256637
PiOver4 == 78540
\* prune_circuit's default threshold 1.e-4
Threshold == 10
\* the "{:2.4f}" of encode_paulistring keeps four decimals: multiples of 1e-4
Decimals == 10

Quarter == One \div 4

\* round to nearest of n / d, d > 0
RoundDiv(n, d) == (2 * n + d) \div (2 * d)

\* x * y of two fixed point numbers, one of which is a multiple of 0.25
\* (generator coefficients, powers and supplied variable values are)
Times(x, y) ==
    IF x % Quarter = 0 THEN RoundDiv((x \div Quarter) * y, 4)
                       ELSE RoundDiv((y \div Quarter) * x, 4)

\* "{:2.4f}".format(x) for x >= 0: the number of 1e-4 printed
Format4(x) == (x + Decimals \div 2) \div Decimals
\* float("d.dddd")
ParseFloat(n) == n * Decimals

-----------------------------------------------------------------------------
(* Angles, gates, Pauli strings *)

NoParam == [k |-> "none", v |-> 0, names |-> <<>>, f |-> "id"]
Numeric(v) == [k |-> "num", v |-> v, names |-> <<>>, f |-> "id"]
\* a tequila Variable (f = "id") or the Objective a + b (f = "sum")
Symbolic(names, f) == [k |-> "sym", v |-> 0, names |-> names, f |-> f]

\* variable names are texts: sequences of characters
VarA == <<"a">>
VarB == <<"b">>
Names == {VarA, VarB}

\* variables = None and variables = {} behave alike in every method here:
\* both are the mapping with the empty domain
NoVars == [x \in {} |-> 0]

\* gate.parameter.extract_variables()
extract_variables(p) == p.names

Resolves(p, variables) ==
    p.k = "num" \/ (p.k = "sym" /\ \A i \in 1..Len(p.names) : p.names[i] \in DOMAIN variables)

\* gate.parameter(variables) where it does not raise
Evaluate(p, variables) ==
    IF p.k = "num" THEN p.v
    ELSE IF p.f = "id" THEN variables[p.names[1]]
    ELSE variables[p.names[1]] + variables[p.names[2]]

Gate(name, target, control, parameter) ==
    [name |-> name, target |-> target, control |-> control, parameter |-> parameter]

hasParameter(gate) == gate.parameter.k # "none"

PauliString(data, coeff) == [data |-> data, coeff |-> coeff]
NoData == [q \in {} |-> "I"]

\* tq.gates.ExpPauli(paulistring=ps, angle=angle)
ExpPauli(ps, angle) == [name |-> "ExpPauli", ps |-> ps, parameter |-> angle]

\* multiply the strings of a generator by (1 - Z(c)) / 2 for a control c
RECURSIVE Controlled(_, _)
Controlled(strings, c) ==
    IF strings = <<>> THEN <<>>
    ELSE LET ps == Head(strings)
             withZ == [q \in (DOMAIN ps.data) \cup {c} |->
                         IF q = c THEN "Z" ELSE ps.data[q]]
         IN <<PauliString(ps.data, ps.coeff \div 2),
              PauliString(withZ, 0 - (ps.coeff \div 2))>>
            \o Controlled(Tail(strings), c)

\* gate.make_generator(include_controls=True).paulistrings: a rotation about
\* an axis has the generator axis(target); a fixed X gate has X(target) - 1,
\* whose second string is a global phase; each gate here has at most one control
make_generator(gate) ==
    LET axis == IF gate.name = "Rx" \/ gate.name = "X" THEN "X"
                ELSE IF gate.name = "Ry" THEN "Y" ELSE "Z"
        base == IF gate.name = "X"
                THEN <<PauliString([q \in {gate.target} |-> axis], One),
                       PauliString(NoData, 0 - One)>>
                ELSE <<PauliString([q \in {gate.target} |-> axis], One)>>
    IN IF gate.control = {} THEN base
       ELSE Controlled(base, CHOOSE c \in gate.control : TRUE)

-----------------------------------------------------------------------------
(* CircuitGenEncoder *)

DefaultGate == "|"
DefaultAngle == "@"

gate_separator == symbols.gate_separator
angle_separator == symbols.angle_separator

\* __init__: writes the arguments that are not None into the class level dict
InitSymbols(gs, as) ==
    [gate_separator |-> IF gs # "None" THEN gs ELSE symbols.gate_separator,
     angle_separator |-> IF as # "None" THEN as ELSE symbols.angle_separator]

\* a compile that drops the controls of the Hadamard it decomposes
RECURSIVE compile_uncontrolled(_)
compile_uncontrolled(gates) ==
    IF gates = <<>> THEN <<>>
    ELSE LET gate == Head(gates)
             angle == IF hasParameter(gate) THEN gate.parameter.v ELSE One
         IN (IF gate.name = "H"
             THEN <<Gate("Ry", gate.target, {}, Numeric(0 - PiOver4)),
                    Gate("Rz", gate.target, {}, Numeric(Times(angle, Pi))),
                    Gate("Ry", gate.target, {}, Numeric(PiOver4))>>
             ELSE <<gate>>)
            \o compile_uncontrolled(Tail(gates))

\* compile; the parameter of a Hadamard, where it has one, is a number
RECURSIVE compile(_)
compile(gates) ==
    IF gates = <<>> THEN <<>>
    ELSE LET gate == Head(gates)
             angle == IF hasParameter(gate) THEN gate.parameter.v ELSE One
         IN (IF gate.name = "H"
             THEN <<Gate("Ry", gate.target, {}, Numeric(0 - PiOver4)),
                    Gate("Rz", gate.target, gate.control, Numeric(Times(angle, Pi))),
                    Gate("Ry", gate.target, {}, Numeric(PiOver4))>>
             ELSE <<gate>>)
            \o compile(Tail(gates))

\* a fix_periodicity with the period of the angle, 2 pi, not of the rotation
fix_periodicity_2pi(angle) ==
    LET a == angle % (2 * Pi)
    IN IF a < 0 THEN a + 2 * Pi ELSE a

\* fix_periodicity
fix_periodicity(angle) ==
    LET a == angle % FourPi
    IN IF a < 0 THEN a + FourPi ELSE a

-----------------------------------------------------------------------------
(* Strings: sequences of atoms.  An atom is one character, one printed     *)
(* number (the count of 1e-4 it shows) or the rendering of the letters of  *)
(* one Pauli string.                                                        *)

Ch(c) == [t |-> "ch", c |-> c, n |-> 0, p |-> <<>>]
Num(n) == [t |-> "num", c |-> "", n |-> n, p |-> <<>>]
Letters(p) == [t |-> "ps", c |-> "", n |-> 0, p |-> p]
Blank == Ch(" ")

Chars(text) == [i \in 1..Len(text) |-> Ch(text[i])]
TextOf(atoms) == [i \in 1..Len(atoms) |-> atoms[i].c]

RECURSIVE Ascending(_)
Ascending(S) ==
    IF S = {} THEN <<>>
    ELSE LET m == CHOOSE x \in S : \A y \in S : x <= y
         IN <<m>> \o Ascending(S \ {m})

\* str(ps.naked()): letter(qubit) by ascending qubit, no coefficient
naked_str(ps) ==
    LET qs == Ascending(DOMAIN ps.data)
    IN [i \in 1..Len(qs) |-> [l |-> ps.data[qs[i]], q |-> qs[i]]]

\* str(angle[0]) of one variable; str(angle) of a list of variables
RECURSIVE JoinNames(_)
JoinNames(names) ==
    IF names = <<>> THEN <<>>
    ELSE IF Len(names) = 1 THEN Head(names)
    ELSE Head(names) \o <<",", " ">> \o JoinNames(Tail(names))

str_list(names) == <<"[">> \o JoinNames(names) \o <<"]">>

\* the angle encode hands to encode_paulistring: a number or a text
NumberAngle(v) == [isnum |-> TRUE, v |-> v, text |-> <<>>]
TextAngle(text) == [isnum |-> FALSE, v |-> 0, text |-> text]

\* encode_paulistring
encode_paulistring(ps, angle) ==
    LET local_angle == IF angle.isnum THEN Times(ps.coeff, angle.v) ELSE ps.coeff
        prefix == IF angle.isnum THEN <<>> ELSE Chars(angle.text)
    IN prefix \o <<Ch(angle_separator), Num(Format4(fix_periodicity(local_angle))),
                   Letters(naked_str(ps)), Ch(gate_separator)>>

\* a ResolveAngle that renders one unresolved variable as a list, like several
ResolveAngle_list(gate, variables) ==
    IF hasParameter(gate)
    THEN IF Resolves(gate.parameter, variables)
         THEN NumberAngle(Evaluate(gate.parameter, variables))
         ELSE TextAngle(str_list(extract_variables(gate.parameter)))
    ELSE NumberAngle(One)

\* encode, lines 59-69: the angle of one gate
ResolveAngle(gate, variables) ==
    IF hasParameter(gate)
    THEN IF Resolves(gate.parameter, variables)
         THEN NumberAngle(Evaluate(gate.parameter, variables))
         ELSE LET angle == extract_variables(gate.parameter)
              IN IF Len(angle) = 1 THEN TextAngle(angle[1])
                 ELSE TextAngle(str_list(angle))
    ELSE NumberAngle(One)

\* encode, lines 70-75: the tokens of one gate
RECURSIVE EncodeStrings(_, _)
EncodeStrings(strings, angle) ==
    IF strings = <<>> THEN <<>>
    ELSE LET ps == Head(strings)
         IN (IF DOMAIN ps.data = {} THEN <<>> ELSE encode_paulistring(ps, angle))
            \o EncodeStrings(Tail(strings), angle)

RECURSIVE EncodeGates(_, _)
EncodeGates(gates, variables) ==
    IF gates = <<>> THEN <<>>
    ELSE EncodeStrings(make_generator(Head(gates)), ResolveAngle(Head(gates), variables))
         \o EncodeGates(Tail(gates), variables)

\* encode
encode(c, variables) == EncodeGates(compile(c), variables)

\* str.split(sep)
RECURSIVE split(_, _)
split(s, sep) ==
    IF \A i \in 1..Len(s) : s[i] # Ch(sep) THEN <<s>>
    ELSE LET i == CHOOSE k \in 1..Len(s) :
                    s[k] = Ch(sep) /\ \A j \in 1..(k - 1) : s[j] # Ch(sep)
         IN <<SubSeq(s, 1, i - 1)>> \o split(SubSeq(s, i + 1, Len(s)), sep)

\* str.strip()
RECURSIVE strip(_)
strip(s) ==
    IF s = <<>> THEN s
    ELSE IF Head(s) = Blank THEN strip(Tail(s))
    ELSE IF s[Len(s)] = Blank THEN strip(SubSeq(s, 1, Len(s) - 1))
    ELSE s

\* decode_paulistring: QubitHamiltonian.from_string must give one term.  It
\* reads back what str renders: an optional coefficient (of any value, zero
\* included) and the letters of one Pauli string
ParsesAsOneTerm(input) ==
    \/ Len(input) = 2 /\ input[1].t = "num" /\ input[2].t = "ps" /\ input[2].p # <<>>
    \/ Len(input) = 1 /\ input[1].t = "ps" /\ input[1].p # <<>>

decode_paulistring(input) ==
    LET p == input[Len(input)].p
        data == [q \in {p[i].q : i \in 1..Len(p)} |->
                    (CHOOSE e \in {p[i] : i \in 1..Len(p)} : e.q = q).l]
    IN PauliString(data, IF Len(input) = 2 THEN ParseFloat(input[1].n) ELSE One)

\* decode, lines 87-94: the angle of one fragment
DecodeAngle(angle, variables) ==
    LET a == strip(angle)
    IN IF Len(a) = 1 /\ a[1].t = "num" THEN Numeric(ParseFloat(a[1].n))
       ELSE IF a = <<>> THEN Numeric(One)
       ELSE IF TextOf(a) \in DOMAIN variables THEN Numeric(variables[TextOf(a)])
       ELSE Symbolic(<<TextOf(a)>>, "id")

Failed == [ok |-> FALSE, gates |-> <<>>]

\* a loop over the fragments that does not skip the empty ones
RECURSIVE DecodeFragments_noskip(_, _)
DecodeFragments_noskip(string_gates, variables) ==
    IF string_gates = <<>> THEN [ok |-> TRUE, gates |-> <<>>]
    ELSE LET gate == strip(Head(string_gates))
             rest == DecodeFragments_noskip(Tail(string_gates), variables)
             parts == split(gate, angle_separator)
         IN IF Len(parts) # 2 \/ ~ParsesAsOneTerm(strip(parts[2])) \/ ~rest.ok
            THEN Failed
            ELSE [ok |-> TRUE,
                  gates |-> <<ExpPauli(decode_paulistring(strip(parts[2])),
                                       DecodeAngle(parts[1], variables))>>
                            \o rest.gates]

\* decode, lines 82-96: the loop over the fragments; any raise fails the call
RECURSIVE DecodeFragments(_, _)
DecodeFragments(string_gates, variables) ==
    IF string_gates = <<>> THEN [ok |-> TRUE, gates |-> <<>>]
    ELSE LET gate == strip(Head(string_gates))
             rest == DecodeFragments(Tail(string_gates), variables)
         IN IF gate = <<>> THEN rest
            ELSE LET parts == split(gate, angle_separator)
                 IN IF Len(parts) # 2 \/ ~ParsesAsOneTerm(strip(parts[2])) \/ ~rest.ok
                    THEN Failed
                    ELSE [ok |-> TRUE,
                          gates |-> <<ExpPauli(decode_paulistring(strip(parts[2])),
                                               DecodeAngle(parts[1], variables))>>
                                    \o rest.gates]

\* decode
decode(s, variables) == DecodeFragments(split(s, gate_separator), variables)

\* numpy.isclose(angle, 0.0, atol=threshold): |angle - 0.0| <= atol + rtol * |0.0|
isclose_zero(angle, threshold) ==
    (IF angle < 0 THEN 0 - angle ELSE angle) <= threshold

\* prune_circuit: gate.parameter(variables) raises on an unresolved angle
RECURSIVE PruneGates(_, _, _)
PruneGates(gates, variables, threshold) ==
    IF gates = <<>> THEN <<>>
    ELSE LET gate == Head(gates)
             keep == IF hasParameter(gate)
                     THEN ~isclose_zero(fix_periodicity(Evaluate(gate.parameter, variables)),
                                        threshold)
                     ELSE TRUE
         IN (IF keep THEN <<gate>> ELSE <<>>) \o PruneGates(Tail(gates), variables, threshold)

prune_circuit(c, variables, threshold) ==
    IF \E i \in 1..Len(c) : hasParameter(c[i]) /\ ~Resolves(c[i].parameter, variables)
    THEN Failed
    ELSE [ok |-> TRUE, gates |-> PruneGates(c, variables, threshold)]

-----------------------------------------------------------------------------
(* The callers of the codec *)

Half == One \div 2

\* the gates circuits are built from (qubits 0 and 1)
GateSet ==
    { Gate("H", 0, {}, NoParam),
      Gate("H", 1, {0}, Numeric(One)),
      Gate("X", 1, {0}, NoParam),
      Gate("Rx", 0, {}, Numeric(0 - 2)),
      Gate("Ry", 1, {}, Numeric(FourPi)),
      Gate("Rz", 1, {0}, Numeric(30 * One)),
      Gate("Rx", 0, {}, Symbolic(<<VarA>>, "id")),
      Gate("Rx", 1, {0}, Symbolic(<<VarB>>, "id")),
      Gate("Ry", 0, {}, Symbolic(<<VarA, VarB>>, "sum")) }

\* the variable mappings callers pass: none, a alone, a and b
Envs ==
    { NoVars,
      [x \in {VarA} |-> Half],
      [x \in {VarA, VarB} |-> IF x = VarA THEN Half ELSE 5 * Half] }

\* separators callers pass to the constructor ("None": argument omitted)
GateSeparators == {"None", ";"}
AngleSeparators == {"None", "#"}

\* what a caller appends to a string before decoding it: nothing, a
\* terminal gate separator, a blank
Pads == {<<>>, <<Ch(gate_separator)>>, <<Blank>>}

\* hand-written strings: "2.5@1.0000X(0)|" and " | "
HandWritten ==
    { <<Num(25000), Ch(angle_separator), Num(10000),
        Letters(<<[l |-> "X", q |-> 0]>>), Ch(gate_separator)>>,
      <<Blank, Ch(gate_separator), Blank>> }

\* the record of the last call: its arguments and what it returned
Call(op, variables, str, result) ==
    [op |-> op, variables |-> variables, string |-> str,
     ok |-> result.ok, gates |-> result.gates]

Ok(gates) == [ok |-> TRUE, gates |-> gates]

ClassSymbols == [gate_separator |-> DefaultGate, angle_separator |-> DefaultAngle]

GeneratorIdle ==
    /\ gen = [n_qubits |-> 0, depth |-> 0, connectivity |-> "all_to_all", generators |-> {}]
    /\ moment = 0
    /\ qubits = {}
    /\ current_moment = {}
    /\ past_moment = {}
    /\ ngates = 0
    /\ acted = <<>>
    /\ gpc = "idle"

\* the module is imported: the class exists, no codec does
InitCodecs ==
    /\ symbols = ClassSymbols
    /\ codecs = <<>>
    /\ circuit = <<>>
    /\ last = Call("init", NoVars, <<>>, Ok(<<>>))
    /\ GeneratorIdle

\* CircuitGenEncoder(gate_separator=gs, angle_separator=as)
Construct(gs, as) ==
    /\ Len(codecs) < MaxCodecs
    /\ symbols' = InitSymbols(gs, as)
    /\ codecs' = Append(codecs, [gate_separator |-> gs, angle_separator |-> as])
    /\ UNCHANGED <<circuit, last>>
    /\ UNCHANGED gvars

\* circuit += gate, while the circuit is being built
AddGate(g) ==
    /\ last.op \in {"init", "build"}
    /\ Len(circuit) < MaxGates
    /\ circuit' = Append(circuit, g)
    /\ last' = Call("build", NoVars, <<>>, Ok(<<>>))
    /\ UNCHANGED <<symbols, codecs>>
    /\ UNCHANGED gvars

\* encoder.compile(circuit)
Compile ==
    /\ codecs # <<>>
    /\ last' = Call("compile", NoVars, <<>>, Ok(compile(circuit)))
    /\ UNCHANGED <<symbols, codecs, circuit>>
    /\ UNCHANGED gvars

\* encoder.encode(circuit, variables)
Encode(variables) ==
    /\ codecs # <<>>
    /\ last' = Call("encode", variables, encode(circuit, variables), Ok(<<>>))
    /\ UNCHANGED <<symbols, codecs, circuit>>
    /\ UNCHANGED gvars

\* a caller with no circuit holds a hand-written string
Supply(s) ==
    /\ codecs # <<>>
    /\ circuit = <<>>
    /\ last' = Call("supply", NoVars, s, Ok(<<>>))
    /\ UNCHANGED <<symbols, codecs, circuit>>
    /\ UNCHANGED gvars

\* encoder.decode(string + pad, variables) of the string just encoded or supplied
Decode(pad, variables) ==
    /\ codecs # <<>>
    /\ last.op \in {"encode", "supply"}
    /\ pad = <<>> \/ variables = NoVars
    /\ last' = Call("decode", variables, last.string \o pad,
                    decode(last.string \o pad, variables))
    /\ UNCHANGED <<symbols, codecs, circuit>>
    /\ UNCHANGED gvars

\* encoder.prune_circuit(circuit, variables)
Prune(variables) ==
    /\ codecs # <<>>
    /\ last' = Call("prune", variables, <<>>, prune_circuit(circuit, variables, Threshold))
    /\ UNCHANGED <<symbols, codecs, circuit>>
    /\ UNCHANGED gvars

Calls ==
    \/ \E g \in GateSet : AddGate(g)
    \/ Compile
    \/ \E v \in Envs : Encode(v)
    \/ \E s \in HandWritten : Supply(s)
    \/ \E p \in Pads, v \in Envs : Decode(p, v)
    \/ \E v \in Envs : Prune(v)

\* one codec, constructed with any of the separators
Init ==
    /\ \E gs \in GateSeparators, as \in AngleSeparators :
          /\ symbols = [gate_separator |-> IF gs # "None" THEN gs ELSE DefaultGate,
                        angle_separator |-> IF as # "None" THEN as ELSE DefaultAngle]
          /\ codecs = <<[gate_separator |-> gs, angle_separator |-> as]>>
    /\ circuit = <<>>
    /\ last = Call("init", NoVars, <<>>, Ok(<<>>))
    /\ GeneratorIdle

Next == Calls

Spec == Init /\ [][Next]_vars

\* any number of codecs, constructed at any time
NextCodecs ==
    \/ \E gs \in GateSeparators, as \in AngleSeparators : Construct(gs, as)
    \/ Calls

SpecCodecs == InitCodecs /\ [][NextCodecs]_vars

-----------------------------------------------------------------------------
(* CircuitGenerator *)

\* make_connectivity_map: the list of neighbours of qubit k.  A dict display
\* keeps the last value of a repeated key, which decides local_line for n = 1
connectivity(key, n, k) ==
    IF key = "all_to_all"
    THEN SelectSeq([i \in 1..n |-> i - 1], LAMBDA l : l # k)
    ELSE IF key = "local_line"
    THEN IF k = n - 1 THEN <<n - 2>>
         ELSE IF k = 0 THEN <<1>>
         ELSE <<k + 1, k - 1>>
    ELSE <<(k + 1) % n, (k - 1) % n>>

\* the generator lists passed to the constructor, each primitive a sequence of
\* letters: ["Y"], ["XY"] and the ["Y", "XY"] of the demo
GeneratorLists == { {<<"Y">>}, {<<"X", "Y">>}, {<<"Y">>, <<"X", "Y">>} }
Connectivities == {"all_to_all", "local_line", "local_ring"}

AllQubits == 0..(gen.n_qubits - 1)

\* line 260: the neighbours of q0 still in the pool
available_connections(q0) ==
    SelectSeq(connectivity(gen.connectivity, gen.n_qubits, q0), LAMBDA x : x \in qubits)

\* line 264: a dict comprehension keeps the last letter given to a qubit
MakeString(p, q) ==
    [x \in {q[i] : i \in 1..Len(p)} |->
        p[CHOOSE i \in 1..Len(p) : q[i] = x /\ \A j \in (i + 1)..Len(p) : q[j] # x]]

\* the module is imported, no generator runs
InitGen ==
    /\ symbols = ClassSymbols
    /\ codecs = <<>>
    /\ circuit = <<>>
    /\ last = Call("init", NoVars, <<>>, Ok(<<>>))
    /\ GeneratorIdle

\* CircuitGenerator(depth, connectivity, n_qubits, generators)() up to the
\* first pass of the outer loop
Generate(n, depth, key, generators) ==
    /\ gpc = "idle"
    /\ gen' = [n_qubits |-> n, depth |-> depth, connectivity |-> key,
               generators |-> generators]
    /\ moment' = 0
    /\ qubits' = 0..(n - 1)
    /\ current_moment' = {}
    /\ past_moment' = {}
    /\ ngates' = 0
    /\ acted' = [x \in 0..(n - 1) |-> 0]
    /\ gpc' = "moment"
    /\ UNCHANGED cvars

\* one pass of the while loop in which no choice raises: lines 258-275
Place(p, q0, partners) ==
    /\ gpc = "moment"
    /\ qubits # {}
    /\ p \in gen.generators
    /\ q0 \in qubits
    /\ Len(partners) = Len(p) - 1
    /\ \E f \in [1..Len(partners) -> 1..Len(available_connections(q0))] :
          /\ \A i, j \in 1..Len(partners) : i # j => f[i] # f[j]
          /\ partners = [i \in 1..Len(partners) |-> available_connections(q0)[f[i]]]
    /\ LET q == <<q0>> \o partners
           ps == MakeString(p, q)
           touched == {q[i] : i \in 1..Len(q)}
       IN /\ current_moment' = current_moment \cup {ps}
          /\ ngates' = IF ps \in past_moment THEN ngates ELSE ngates + 1
          /\ acted' = [x \in DOMAIN acted |->
                          IF x \in touched /\ ps \notin past_moment
                          THEN acted[x] + 1 ELSE acted[x]]
          /\ qubits' = qubits \ touched
    /\ UNCHANGED <<gen, moment, past_moment, gpc>>
    /\ UNCHANGED cvars

\* one pass in which numpy.random.choice raises ValueError (too few
\* neighbours left for the primitive): printed, and the loop goes on
Retry(p, q0) ==
    /\ gpc = "moment"
    /\ qubits # {}
    /\ p \in gen.generators
    /\ q0 \in qubits
    /\ Len(available_connections(q0)) < Len(p) - 1
    /\ UNCHANGED gvars
    /\ UNCHANGED cvars

\* the while loop ends: line 281 and the next pass of the for loop, or line 283
EndMoment ==
    /\ gpc = "moment"
    /\ qubits = {}
    /\ past_moment' = current_moment
    /\ moment' = moment + 1
    /\ IF moment + 1 < gen.depth
       THEN /\ qubits' = AllQubits
            /\ current_moment' = {}
            /\ acted' = [x \in DOMAIN acted |-> 0]
            /\ gpc' = "moment"
       ELSE /\ gpc' = "done"
            /\ UNCHANGED <<qubits, current_moment, acted>>
    /\ UNCHANGED <<gen, ngates>>
    /\ UNCHANGED cvars

PartnerLists == {<<>>} \cup {<<x>> : x \in 0..(MaxQubits - 1)}

NextGen ==
    \/ \E n \in 1..MaxQubits, depth \in 1..MaxDepth, key \in Connectivities,
          generators \in GeneratorLists : Generate(n, depth, key, generators)
    \/ \E p \in gen.generators, q0 \in qubits, partners \in PartnerLists :
          Place(p, q0, partners)
    \/ \E p \in gen.generators, q0 \in qubits : Retry(p, q0)
    \/ EndMoment

\* every outcome of numpy.random.choice has positive probability: a pass that
\* can change the state is eventually taken
SpecGen == InitGen /\ [][NextGen]_vars /\ WF_vars(NextGen)

-----------------------------------------------------------------------------
(* What the claims speak of *)

IsH(g) == g.name = "H"
HadamardsBefore(c, i) == Cardinality({j \in 1..(i - 1) : IsH(c[j])})

\* the angle of a gate under a mapping that resolves it (1.0 without parameter)
AngleOf(g, variables) ==
    IF hasParameter(g) THEN Evaluate(g.parameter, variables) ELSE One
ResolvedBy(g, variables) == ~hasParameter(g) \/ Resolves(g.parameter, variables)
IsSymbolic(g) == g.parameter.k = "sym"

\* the Pauli strings of the generators of a gate sequence that are not global
\* phases, each with its gate, in order
RECURSIVE StringsOf(_, _)
StringsOf(g, strings) ==
    IF strings = <<>> THEN <<>>
    ELSE (IF DOMAIN Head(strings).data = {} THEN <<>>
          ELSE <<[gate |-> g, ps |-> Head(strings)]>>)
         \o StringsOf(g, Tail(strings))

RECURSIVE TokenSources(_)
TokenSources(gates) ==
    IF gates = <<>> THEN <<>>
    ELSE StringsOf(Head(gates), make_generator(Head(gates))) \o TokenSources(Tail(gates))

SymbolicText(param) ==
    IF Len(param.names) = 1 THEN param.names[1] ELSE str_list(param.names)

NonBlank(frags) == SelectSeq(frags, LAMBDA f : strip(f) # <<>>)

\* distance of x and y on the circle of circumference 4 pi
CircDist(x, y) ==
    LET d == (x - y) % FourPi
    IN IF d <= FourPi - d THEN d ELSE FourPi - d

\* angle x coefficient of a decoded gate
Effective(gate) == Times(gate.parameter.v, gate.ps.coeff)

\* the string decoded was encoded from the circuit under the separators in force
EncodedFrom(str, variables) ==
    \E p \in Pads : str = encode(circuit, variables) \o p

-----------------------------------------------------------------------------
(* C8: compile replaces every Hadamard, at its position, by Ry(-pi/4),      *)
(* Rz(angle*pi) with the Hadamard's controls, Ry(pi/4) on its target, keeps *)
(* every other gate unchanged and in order, returns n + 2 * (number of      *)
(* Hadamards) gates and leaves the input circuit as it was.                 *)

CompileContract(c, out) ==
    /\ Len(out) = Len(c) + 2 * HadamardsBefore(c, Len(c) + 1)
    /\ \A i \in 1..Len(c) :
         LET at == i + 2 * HadamardsBefore(c, i)
             g == c[i]
         IN IF IsH(g)
            THEN /\ out[at] = Gate("Ry", g.target, {}, Numeric(0 - PiOver4))
                 /\ out[at + 1] = Gate("Rz", g.target, g.control,
                                       Numeric(Times(AngleOf(g, NoVars), Pi)))
                 /\ out[at + 2] = Gate("Ry", g.target, {}, Numeric(PiOver4))
            ELSE out[at] = g

\* C8: every compile call returns the Hadamard-free sequence described above
\* and leaves the circuit it was given unchanged
C8_Compile ==
    [][last'.op = "compile" => circuit' = circuit /\ CompileContract(circuit, last'.gates)]_vars

C8_Witness ==
    /\ last.op = "compile"
    /\ Len(circuit) = 2
    /\ IsH(circuit[1]) /\ circuit[1].control # {}
    /\ ~IsH(circuit[2]) /\ circuit[2].control # {}

-----------------------------------------------------------------------------
(* C4: encode with a partly supplied mapping                                *)

TokenContract(src, frag, variables) ==
    LET g == src.gate
        ps == src.ps
        resolved == ResolvedBy(g, variables)
        coeff == IF resolved THEN Times(ps.coeff, AngleOf(g, variables)) ELSE ps.coeff
        prefix == IF resolved THEN <<>> ELSE Chars(SymbolicText(g.parameter))
    IN frag = prefix \o <<Ch(angle_separator), Num(Format4(fix_periodicity(coeff))),
                          Letters(naked_str(ps))>>

-----------------------------------------------------------------------------
(* C7: decode and empty fragments                                           *)

FragmentOf(gate, frag) ==
    LET f == strip(frag)
    IN /\ f[Len(f)] = Letters(naked_str(gate.ps))
       /\ f[Len(f) - 1].t = "num" => ParseFloat(f[Len(f) - 1].n) = gate.ps.coeff

\* C7: decode returns one gate per non-blank fragment, in fragment order; a
\* terminal gate separator changes nothing; decoding an encoded circuit gives
\* as many gates as encode emitted tokens
C7_Fragments ==
    last.op = "decode" =>
        LET frags == NonBlank(split(last.string, gate_separator))
            again == decode(last.string \o <<Ch(gate_separator)>>, last.variables)
        IN /\ again.ok = last.ok /\ again.gates = last.gates
           /\ last.ok => /\ Len(last.gates) = Len(frags)
                         /\ \A k \in 1..Len(frags) : FragmentOf(last.gates[k], frags[k])
           /\ (\E v \in Envs : EncodedFrom(last.string, v)) =>
                 /\ last.ok
                 /\ Len(last.gates) = Len(TokenSources(compile(circuit)))

C7_Witness ==
    /\ last.op = "decode"
    /\ last.ok
    /\ Len(last.gates) >= 4
    /\ last.string[Len(last.string)] = Ch(gate_separator)
    /\ last.string[Len(last.string) - 1] = Ch(gate_separator)

-----------------------------------------------------------------------------
(* C1: numeric round trip                                                   *)

AllNumeric(c) ==
    \A i \in 1..Len(c) : c[i].name \in {"H", "Rx", "Ry", "Rz"} /\ ~IsSymbolic(c[i])

RoundTrip(tolerance) ==
    (last.op = "decode" /\ AllNumeric(circuit) /\ EncodedFrom(last.string, NoVars)) =>
        LET src == TokenSources(compile(circuit))
        IN /\ last.ok
           /\ Len(last.gates) = Len(src)
           /\ \A k \in 1..Len(src) :
                /\ last.gates[k].ps.data = src[k].ps.data
                /\ last.gates[k].parameter.k = "num"
                /\ CircDist(Effective(last.gates[k]),
                            Times(src[k].ps.coeff, AngleOf(src[k].gate, NoVars))) <= tolerance

\* C1 as stated: decode(encode(C)) has one gate per non-global-phase Pauli
\* string of compile(C), in order, on the same qubits with the same letters,
\* and its angle x coefficient is congruent modulo 4 pi to coefficient x angle
C1_Exact == RoundTrip(0)

\* C1 amended: the same, the rotations agreeing modulo 4 pi to within half a
\* unit of the fourth decimal, the rounding of the printed coefficient
C1_Rounded == RoundTrip(Decimals \div 2)

C1_Witness ==
    /\ last.op = "decode"
    /\ last.ok
    /\ EncodedFrom(last.string, NoVars)
    /\ Len(circuit) = 2
    /\ circuit[1] = Gate("H", 1, {0}, Numeric(One))
    /\ circuit[2] = Gate("Rx", 0, {}, Numeric(0 - 2))

-----------------------------------------------------------------------------
(* C2: symbolic round trip                                                  *)

\* C2: a gate whose angle stays symbolic has its variable name(s) in the angle
\* prefix of its tokens, and decode without variables returns gates carrying
\* the same symbolic angle expression
C2_SymbolicRoundTrip ==
    (last.op = "decode" /\ last.variables = NoVars /\ EncodedFrom(last.string, NoVars)) =>
        LET src == TokenSources(compile(circuit))
            frags == split(last.string, gate_separator)
        IN /\ last.ok
           /\ Len(last.gates) = Len(src)
           /\ \A k \in 1..Len(src) :
                IsSymbolic(src[k].gate) =>
                    /\ split(frags[k], angle_separator)[1]
                          = Chars(SymbolicText(src[k].gate.parameter))
                    /\ last.gates[k].parameter = src[k].gate.parameter

-----------------------------------------------------------------------------
(* C3: periodicity                                                          *)

\* C3: fix_periodicity(theta) lies in [0, 4 pi) and is congruent to theta
\* modulo 4 pi, and the coefficient of every emitted token lies in [0, 4 pi)
C3_Periodicity ==
    last.op = "encode" =>
        LET src == TokenSources(compile(circuit))
        IN /\ \A k \in 1..Len(src) :
                LET g == src[k].gate
                    theta == IF ResolvedBy(g, last.variables)
                             THEN Times(src[k].ps.coeff, AngleOf(g, last.variables))
                             ELSE src[k].ps.coeff
                IN /\ 0 <= fix_periodicity(theta)
                   /\ fix_periodicity(theta) < FourPi
                   /\ (fix_periodicity(theta) - theta) % FourPi = 0
           /\ \A i \in 1..Len(last.string) :
                last.string[i].t = "num" =>
                    /\ 0 <= ParseFloat(last.string[i].n)
                    /\ ParseFloat(last.string[i].n) < FourPi

-----------------------------------------------------------------------------
(* C5: prune_circuit                                                        *)

NearZero(angle) ==
    LET a == fix_periodicity(angle)
    IN a <= Threshold \/ a >= FourPi - Threshold

\* C5: prune_circuit removes exactly the parametrized gates whose normalized
\* angle lies in [0, 1e-4] or [4 pi - 1e-4, 4 pi) and keeps the others in order
C5_Prune ==
    (last.op = "prune" /\ last.ok) =>
        last.gates = SelectSeq(circuit,
                        LAMBDA g : ~(hasParameter(g)
                                     /\ NearZero(Evaluate(g.parameter, last.variables))))

-----------------------------------------------------------------------------
(* C9: substitution commutes with the codec                                 *)

\* what the rounding of the printed coefficient may account for: 1e-3
Tolerance == One \div 1000

\* C9: decoding the symbolically encoded string with a value for the variable
\* of a single-variable gate gives, for each of its Pauli strings, a rotation
\* value x decoded coefficient congruent modulo 4 pi to coefficient x value
C9_Substitution ==
    (last.op = "decode" /\ EncodedFrom(last.string, NoVars)) =>
        LET src == TokenSources(compile(circuit))
        IN /\ last.ok
           /\ Len(last.gates) = Len(src)
           /\ \A k \in 1..Len(src) :
                LET param == src[k].gate.parameter
                IN (/\ param.k = "sym"
                    /\ param.f = "id"
                    /\ param.names[1] \in DOMAIN last.variables) =>
                       /\ last.gates[k].parameter.k = "num"
                       /\ CircDist(Effective(last.gates[k]),
                                   Times(src[k].ps.coeff, last.variables[param.names[1]]))
                             <= Tolerance

-----------------------------------------------------------------------------
(* C6: separators                                                           *)

Given(arg, default) == IF arg # "None" THEN arg ELSE default

\* C6: every codec uses the separators given to its own constructor, with "|"
\* and "@" for the arguments it omitted, whatever other codecs were constructed
C6_Separators ==
    \A i \in 1..Len(codecs) :
        /\ gate_separator = Given(codecs[i].gate_separator, DefaultGate)
        /\ angle_separator = Given(codecs[i].angle_separator, DefaultAngle)

-----------------------------------------------------------------------------
(* C10: the generator terminates                                            *)

\* C10: make_random_constant_depth_circuit returns for every configuration,
\* and within a moment no qubit is acted on by more than one generated string
C10_Terminates ==
    /\ (gpc = "moment") ~> (gpc = "done")
    /\ [](\A x \in DOMAIN acted : acted[x] <= 1)

====
